---- MODULE Spec2Model ----
(***************************************************************************)
(* Drinfeld F_q[T]-modules (sage/rings/function_field/drinfeld_modules/    *)
(* drinfeld_module.py).  A caller builds one module phi with               *)
(* DrinfeldModule(function_ring, gen) and then calls its methods; every    *)
(* method is a function of phi and its arguments.                          *)
(*                                                                         *)
(* Constant field F_q = GF(2).  Base fields: K = GF(4) = F_2(z), z^2=z+1   *)
(* (finite case) and L = Frac(GF(4)[Y]) (infinite case) whose elements are *)
(* drawn from the constants GF(4) of L.  An element a + b*z is the integer *)
(* a + 2*b, so 0, 1, 2 = z, 3 = z+1.  FracA = Frac(GF(2)[T]) is the base    *)
(* field with gamma injective; its elements are drawn from 0 and T.        *)
(***************************************************************************)
EXTENDS Integers, Sequences, FiniteSets, TLC

VARIABLES pc, phi, last

vars == <<pc, phi, last>>

\* ------------------------------------------------------------------ bounds
MaxRank == 2       \* largest rank of a constructed module (isogeny engine)
MaxRankJ == 3      \* largest rank in the j-invariant engine
MaxDegF == 2       \* largest degree of a candidate isogeny drawn freely
MaxDegA == 1       \* largest degree of a function-ring element
MaxDegDiv == 1     \* largest degree of a divisor (dividends: one more)
MaxExp == 3        \* largest exponent d_i of a j-invariant parameter drawn freely

\* ------------------------------------------------ field primitives (GF(4))
q == 2

FieldElts == 0..3

AddTab == << <<0,1,2,3>>, <<1,0,3,2>>, <<2,3,0,1>>, <<3,2,1,0>> >>

MulTab == << <<0,0,0,0>>, <<0,1,2,3>>, <<0,2,3,1>>, <<0,3,1,2>> >>

FAdd(a, b) == AddTab[a + 1][b + 1]

FMul(a, b) == MulTab[a + 1][b + 1]

InvTab == <<1, 3, 2>>

FInv(a) == InvTab[a]

FDiv(a, b) == FMul(a, FInv(b))

RECURSIVE IntPow(_, _)
IntPow(b, n) == IF n = 0 THEN 1 ELSE b * IntPow(b, n - 1)

RECURSIVE FPow(_, _)
FPow(a, n) == IF n = 0 THEN 1 ELSE FMul(a, FPow(a, n - 1))

\* the twist sigma^n : x |-> x^(q^n)
RECURSIVE Frob(_, _)
Frob(x, n) == IF n = 0 THEN x ELSE Frob(FPow(x, q), n - 1)

\* --------------------------------------- Ore polynomials K{tau} (sequences)
\* <<c_0, ..., c_d>> with c_d # 0; the zero polynomial is <<>>.
RECURSIVE Trim(_)
Trim(s) == IF s = <<>> THEN <<>>
           ELSE IF s[Len(s)] = 0 THEN Trim(SubSeq(s, 1, Len(s) - 1)) ELSE s

Coef(p, i) == IF i >= 0 /\ i < Len(p) THEN p[i + 1] ELSE 0

Degree(p) == Len(p) - 1

Valuation(p) == IF p = <<>> THEN -1
                ELSE CHOOSE i \in 0..Degree(p) :
                        /\ p[i + 1] # 0
                        /\ \A j \in 0..(i - 1) : p[j + 1] = 0

Max(a, b) == IF a >= b THEN a ELSE b

OAdd(a, b) == Trim([k \in 1..Max(Len(a), Len(b)) |->
                        FAdd(Coef(a, k - 1), Coef(b, k - 1))])

RECURSIVE ISum(_, _, _)
ISum(F(_), lo, hi) == IF lo > hi THEN 0 ELSE F(lo) + ISum(F, lo + 1, hi)

RECURSIVE FSum(_, _, _)
FSum(F(_), lo, hi) == IF lo > hi THEN 0 ELSE FAdd(F(lo), FSum(F, lo + 1, hi))

\* (sum a_i tau^i)(sum b_j tau^j) = sum a_i sigma^i(b_j) tau^(i+j)
OMul(a, b) ==
    IF a = <<>> \/ b = <<>> THEN <<>>
    ELSE Trim([k \in 1..(Len(a) + Len(b) - 1) |->
            LET T(i) == FMul(Coef(a, i), Frob(Coef(b, k - 1 - i), i))
            IN  FSum(T, 0, k - 1)])

\* c * tau^n
Monomial(c, n) == IF c = 0 THEN <<>> ELSE [k \in 1..(n + 1) |-> IF k = n + 1 THEN c ELSE 0]

\* (a division loop that stops one step early)
RECURSIVE QuoRemLoop_early(_, _)
QuoRemLoop_early(A, B) ==
    IF Degree(A) <= Degree(B) THEN [quo |-> <<>>, rem |-> A]
    ELSE LET n == Degree(A)
             m == Degree(B)
             c == FDiv(A[n + 1], Frob(B[m + 1], n - m))
             M == Monomial(c, n - m)
             rest == QuoRemLoop_early(OAdd(A, OMul(M, B)), B)
         IN  [quo |-> OAdd(M, rest.quo), rem |-> rest.rem]

\* right Euclidean division A = Q*B + R, deg R < deg B, for B # 0
RECURSIVE QuoRemLoop(_, _)
QuoRemLoop(A, B) ==
    IF Degree(A) < Degree(B) THEN [quo |-> <<>>, rem |-> A]
    ELSE LET n == Degree(A)
             m == Degree(B)
             c == FDiv(A[n + 1], Frob(B[m + 1], n - m))
             M == Monomial(c, n - m)
             rest == QuoRemLoop(OAdd(A, OMul(M, B)), B)
         IN  [quo |-> OAdd(M, rest.quo), rem |-> rest.rem]

right_quo_rem(A, B) ==
    IF B = <<>> THEN [status |-> "ZeroDivisionError", quo |-> <<>>, rem |-> <<>>]
    ELSE LET r == QuoRemLoop(A, B)
         IN  [status |-> "ok", quo |-> r.quo, rem |-> r.rem]

\* ----------------------------------------------------------- construction
NoCategory == [kind |-> "none", const |-> 0]

NoModule == [id |-> 0, gen |-> <<>>, cat |-> NoCategory]

\* Sequence(gen).universe() / ore_polring.base(): the parent of the
\* coefficients.  "K" = GF(4), "L" = Frac(GF(4)[Y]), "B" = GF(4)[Y],
\* "QQ" = the rationals, "FracA" = Frac(GF(2)[T]).
Universes == {"K", "L", "B", "QQ", "FracA"}

\* the element T of FracA (0 and 1 are written as in K)
TElt == 4

has_coerce_map_from_Fq(U) == U \in {"K", "L", "B", "FracA"}

is_field(U) == U \in {"K", "L", "QQ", "FracA"}

is_finite(U) == U = "K"

\* DrinfeldModules(base_field): the category is fixed by the base field and
\* the image gamma(T) = gen[0] of T; gamma is injective when gamma(T) = T.
DrinfeldModules(U, g0) ==
    [kind |-> IF is_finite(U) THEN "finite"
              ELSE IF U = "FracA" /\ g0 = TElt THEN "injective"
              ELSE "generic",
     const |-> g0]

CategoryUniverse(cat) ==
    IF cat.kind = "finite" THEN "K"
    ELSE IF cat.kind = "injective" THEN "FracA"
    ELSE "L"

\* UniqueRepresentation: the instance with key (gen, category) is the live
\* one when there is one (id 1 is the caller's module), a new one otherwise.
classcall(live, gen, cat) ==
    IF live.id # 0 /\ live.gen = gen /\ live.cat = cat
    THEN live
    ELSE [id |-> live.id + 1, gen |-> gen, cat |-> cat]

Failure(e) == [status |-> e, mod |-> NoModule]

\* (construction without the test gen.degree() <= 0)
classcall_private_no_degree_test(live, function_ring, gen) ==
    IF function_ring = "K" THEN
        Failure("NotImplementedError: function ring must be a polynomial ring")
    ELSE IF function_ring = "A[Y]" THEN
        Failure("TypeError: function ring base must be a finite field")
    ELSE IF gen.type \notin {"ore", "list"} THEN
        Failure("TypeError: generator must be list of coefficients or Ore polynomial")
    ELSE IF gen.type = "list" /\ gen.coeffs = <<>> THEN
        Failure("IndexError: list index out of range")
    ELSE IF Coef(gen.coeffs, 0) = 0 THEN
        Failure("ValueError: constant coefficient must be nonzero")
    ELSE IF ~has_coerce_map_from_Fq(gen.universe) THEN
        Failure("ValueError: function ring base must coerce into base field")
    ELSE IF ~is_field(gen.universe) THEN
        Failure("ValueError: generator coefficients must live in a field")
    ELSE [status |-> "ok",
          mod |-> classcall(live, Trim(gen.coeffs),
                            DrinfeldModules(gen.universe, gen.coeffs[1]))]

\* (construction that refuses a coefficient list ending in zero)
classcall_private_strict(live, function_ring, gen) ==
    IF function_ring = "K" THEN
        Failure("NotImplementedError: function ring must be a polynomial ring")
    ELSE IF function_ring = "A[Y]" THEN
        Failure("TypeError: function ring base must be a finite field")
    ELSE IF gen.type \notin {"ore", "list"} THEN
        Failure("TypeError: generator must be list of coefficients or Ore polynomial")
    ELSE IF gen.type = "list" /\ gen.coeffs = <<>> THEN
        Failure("IndexError: list index out of range")
    ELSE IF Coef(gen.coeffs, 0) = 0 THEN
        Failure("ValueError: constant coefficient must be nonzero")
    ELSE IF ~has_coerce_map_from_Fq(gen.universe) THEN
        Failure("ValueError: function ring base must coerce into base field")
    ELSE IF ~is_field(gen.universe) THEN
        Failure("ValueError: generator coefficients must live in a field")
    ELSE IF Trim(gen.coeffs) # gen.coeffs \/ Degree(gen.coeffs) <= 0 THEN
        Failure("ValueError: generator must have positive degree")
    ELSE [status |-> "ok",
          mod |-> classcall(live, gen.coeffs,
                            DrinfeldModules(gen.universe, gen.coeffs[1]))]

classcall_private(live, function_ring, gen) ==
    IF function_ring = "K" THEN
        Failure("NotImplementedError: function ring must be a polynomial ring")
    ELSE IF function_ring = "A[Y]" THEN
        Failure("TypeError: function ring base must be a finite field")
    ELSE IF gen.type \notin {"ore", "list"} THEN
        Failure("TypeError: generator must be list of coefficients or Ore polynomial")
    ELSE IF gen.type = "list" /\ gen.coeffs = <<>> THEN
        Failure("IndexError: list index out of range")
    ELSE IF Coef(gen.coeffs, 0) = 0 THEN
        Failure("ValueError: constant coefficient must be nonzero")
    ELSE IF ~has_coerce_map_from_Fq(gen.universe) THEN
        Failure("ValueError: function ring base must coerce into base field")
    ELSE IF ~is_field(gen.universe) THEN
        Failure("ValueError: generator coefficients must live in a field")
    ELSE LET category == DrinfeldModules(gen.universe, gen.coeffs[1])
             g == Trim(gen.coeffs)
         IN  IF Degree(g) <= 0 THEN
                 Failure("ValueError: generator must have positive degree")
             ELSE [status |-> "ok", mod |-> classcall(live, g, category)]

\* category.object(gen)
object(live, cat, gen) ==
    IF Coef(gen, 0) # cat.const THEN
        Failure("ValueError: constant coefficient must equal that of the category")
    ELSE classcall_private(live, "Fq[T]",
            [type |-> "ore", coeffs |-> gen, universe |-> CategoryUniverse(cat)])

rank(m) == Degree(m.gen)

\* ---------------------------------------------------------- caller inputs
RECURSIVE SeqsUpTo(_, _)
SeqsUpTo(S, n) == IF n = 0 THEN {<<>>}
                  ELSE LET P == SeqsUpTo(S, n - 1)
                       IN  P \cup {Append(s, x) : s \in {t \in P : Len(t) = n - 1}, x \in S}

FunctionRings == {"Fq[T]", "K", "A[Y]"}

GenInputs(maxLen) ==
    {[type |-> "list", coeffs |-> c, universe |-> U] :
        c \in SeqsUpTo(FieldElts, maxLen), U \in {"K", "L", "B"}}
    \cup {[type |-> "list", coeffs |-> c, universe |-> "QQ"] :
        c \in SeqsUpTo({0, 1}, maxLen)}
    \cup {[type |-> "other", coeffs |-> <<>>, universe |-> "K"]}

OrePolys(maxDeg) == {p \in SeqsUpTo(FieldElts, maxDeg + 1) : Trim(p) = p}

\* ------------------------------------------------------------ call record
Blank == [op |-> "none", status |-> "none",
          function_ring |-> "Fq[T]",
          gen |-> [type |-> "other", coeffs |-> <<>>, universe |-> "K"],
          mod |-> NoModule,
          isog |-> <<>>, quo |-> <<>>, rem |-> <<>>, divided |-> FALSE,
          cand |-> <<>>, member |-> FALSE,
          dividend |-> <<>>, divisor |-> <<>>,
          a |-> <<>>, image |-> <<>>,
          coeff_indices |-> [kind |-> "None", list |-> <<>>],
          given |-> FALSE, nonzero |-> FALSE,
          indices |-> <<>>, points |-> <<>>, params |-> <<>>,
          n |-> [int |-> TRUE, v |-> 0], value |-> 0,
          p |-> <<>>, valuation |-> 0,
          parameter |-> [kind |-> "None", k |-> 0, keys |-> <<>>, exps |-> <<>>],
          check |-> TRUE,
          psi |-> NoModule, answer |-> FALSE,
          sparse |-> TRUE, coefficients |-> <<>>, entries |-> <<>>]

Init == /\ pc = "start"
        /\ phi = NoModule
        /\ last = Blank

\* phi = DrinfeldModule(function_ring, gen)
ConstructFrom(rings, gens) ==
    /\ pc = "start"
    /\ \E fr \in rings, gen \in gens :
          LET r == classcall_private(NoModule, fr, gen)
          IN  /\ phi' = r.mod
              /\ pc' = IF r.status = "ok" THEN "returned" ELSE "failed"
              /\ last' = [Blank EXCEPT !.op = "construct", !.status = r.status,
                                       !.function_ring = fr, !.gen = gen,
                                       !.mod = r.mod]

Construct(maxLen) == ConstructFrom(FunctionRings, GenInputs(maxLen))

\* the caller drops the value the last call returned and goes on
Discard ==
    /\ pc = "returned"
    /\ pc' = "ready"
    /\ last' = Blank
    /\ UNCHANGED phi

NextConstruct == Construct(MaxRank + 1) \/ Discard

SpecConstruct == Init /\ [][NextConstruct]_vars

\* ------------------------------------------------------------- evaluation
\* function-ring elements: F_2[T], <<a_0, ..., a_d>> with a_d = 1
FunctionRingElts(maxDeg) == {a \in SeqsUpTo({0, 1}, maxDeg + 1) : Trim(a) = a}

T == <<0, 1>>

\* sum_{i >= k} gamma(a_i) gen^i, pow = gen^k built by repeated multiplication
RECURSIVE Accumulate(_, _, _, _)
Accumulate(gen, a, k, pow) ==
    IF k > Degree(a) THEN <<>>
    ELSE OAdd(OMul(Monomial(a[k + 1], 0), pow),
              Accumulate(gen, a, k + 1, OMul(pow, gen)))

\* self._morphism = function_ring.hom([gen]): a |-> sum_i gamma(a_i) gen^i
morphism(gen, a) == Accumulate(gen, a, 0, <<1>>)

\* (an evaluation that loses the constant term)
call_no_constant(self, a) ==
    morphism(self.gen, IF a = <<>> THEN a ELSE Trim([a EXCEPT ![1] = 0]))

call(self, a) == morphism(self.gen, a)

\* ----------------------------------------------------------- characteristic
\* category.characteristic(): the minimal polynomial of gamma(T) over F_q
\* when the base field is finite (T + 1 for gamma(T) = 1, T^2 + T + 1 for
\* gamma(T) = z or z + 1); the integer 0, which has no degree, when gamma
\* is injective; not implemented for L.
characteristic(cat) ==
    IF cat.kind = "finite"
    THEN [status |-> "ok", zero |-> FALSE,
          degree |-> IF cat.const = 1 THEN 1 ELSE 2,
          poly |-> IF cat.const = 1 THEN <<1, 1>> ELSE <<1, 1, 1>>]
    ELSE IF cat.kind = "injective"
    THEN [status |-> "ok", zero |-> TRUE, degree |-> "undefined", poly |-> <<>>]
    ELSE [status |-> "NotImplementedError: function ring characteristic not implemented in this case",
          zero |-> FALSE, degree |-> 0, poly |-> <<>>]

divides(d, n) == IF d = 0 THEN n = 0 ELSE n % d = 0

\* ------------------------------------------------------------------- velu
NotAnIsogeny == "ValueError: the input does not define an isogeny"

VeluFailure(e, qr, divided) ==
    [status |-> e, mod |-> NoModule, quo |-> qr.quo, rem |-> qr.rem,
     divided |-> divided]

NoDivision == [status |-> "none", quo |-> <<>>, rem |-> <<>>]

\* (velu without the test isog == 0)
velu_no_zero_test(self, isog) ==
    IF ~isog.ore THEN
        VeluFailure("TypeError: input must be an Ore polynomial", NoDivision, FALSE)
    ELSE LET qr == right_quo_rem(OMul(isog.p, self.gen), isog.p)
             char == characteristic(self.cat)
         IN  IF qr.status # "ok" THEN VeluFailure(qr.status, qr, TRUE)
             ELSE IF char.status # "ok" THEN VeluFailure(char.status, qr, TRUE)
             ELSE IF ~divides(char.degree, Valuation(isog.p)) \/ qr.rem # <<>> THEN
                 VeluFailure(NotAnIsogeny, qr, TRUE)
             ELSE LET r == object(self, self.cat, qr.quo)
                  IN  [status |-> r.status, mod |-> r.mod, quo |-> qr.quo,
                       rem |-> qr.rem, divided |-> TRUE]

\* (velu without the test rem != 0)
velu_no_rem_test(self, isog) ==
    IF ~isog.ore THEN
        VeluFailure("TypeError: input must be an Ore polynomial", NoDivision, FALSE)
    ELSE IF isog.p = <<>> THEN
        VeluFailure(NotAnIsogeny, NoDivision, FALSE)
    ELSE LET qr == right_quo_rem(OMul(isog.p, self.gen), isog.p)
             char == characteristic(self.cat)
         IN  IF qr.status # "ok" THEN VeluFailure(qr.status, qr, TRUE)
             ELSE IF char.status # "ok" THEN VeluFailure(char.status, qr, TRUE)
             ELSE IF ~divides(char.degree, Valuation(isog.p)) THEN
                 VeluFailure(NotAnIsogeny, qr, TRUE)
             ELSE LET r == object(self, self.cat, qr.quo)
                  IN  [status |-> r.status, mod |-> r.mod, quo |-> qr.quo,
                       rem |-> qr.rem, divided |-> TRUE]

\* (velu without the test deg(characteristic) | valuation(isog))
velu_no_valuation_test(self, isog) ==
    IF ~isog.ore THEN
        VeluFailure("TypeError: input must be an Ore polynomial", NoDivision, FALSE)
    ELSE IF isog.p = <<>> THEN
        VeluFailure(NotAnIsogeny, NoDivision, FALSE)
    ELSE LET qr == right_quo_rem(OMul(isog.p, self.gen), isog.p)
             char == characteristic(self.cat)
         IN  IF qr.status # "ok" THEN VeluFailure(qr.status, qr, TRUE)
             ELSE IF char.status # "ok" THEN VeluFailure(char.status, qr, TRUE)
             ELSE IF qr.rem # <<>> THEN
                 VeluFailure(NotAnIsogeny, qr, TRUE)
             ELSE LET r == object(self, self.cat, qr.quo)
                  IN  [status |-> r.status, mod |-> r.mod, quo |-> qr.quo,
                       rem |-> qr.rem, divided |-> TRUE]

velu(self, isog) ==
    IF ~isog.ore THEN
        VeluFailure("TypeError: input must be an Ore polynomial", NoDivision, FALSE)
    ELSE IF isog.p = <<>> THEN
        VeluFailure(NotAnIsogeny, NoDivision, FALSE)
    ELSE LET qr == right_quo_rem(OMul(isog.p, self.gen), isog.p)
             char == characteristic(self.cat)
         IN  IF qr.status # "ok" THEN VeluFailure(qr.status, qr, TRUE)
             ELSE IF char.status # "ok" THEN VeluFailure(char.status, qr, TRUE)
             ELSE IF ~divides(char.degree, Valuation(isog.p)) \/ qr.rem # <<>> THEN
                 VeluFailure(NotAnIsogeny, qr, TRUE)
             ELSE LET r == object(self, self.cat, qr.quo)
                  IN  [status |-> r.status, mod |-> r.mod, quo |-> qr.quo,
                       rem |-> qr.rem, divided |-> TRUE]

\* f in Hom(self, psi)
Hom_contains(self, psi, f) ==
    \/ f = <<>>
    \/ LET v == velu(self, [ore |-> TRUE, p |-> f])
       IN  v.status = "ok" /\ v.mod.gen = psi.gen /\ v.mod.cat = psi.cat

IsogInputs == {[ore |-> TRUE, p |-> f] : f \in OrePolys(MaxDegF)}
              \cup {[ore |-> FALSE, p |-> <<>>]}

VeluRecord(isog, r) ==
    [Blank EXCEPT !.op = "velu", !.status = r.status, !.isog = isog.p,
                  !.given = isog.ore, !.mod = r.mod, !.quo = r.quo,
                  !.rem = r.rem, !.divided = r.divided]

\* (a velu that leaves the caller's module bound to the codomain)
Velu_rebinds ==
    /\ pc = "ready"
    /\ \E isog \in IsogInputs :
          LET res == velu(phi, isog)
          IN  /\ last' = VeluRecord(isog, res)
              /\ phi' = IF res.status = "ok" THEN res.mod ELSE phi
    /\ pc' = "returned"

\* phi.velu(isog)
Velu ==
    /\ pc = "ready"
    /\ \E isog \in IsogInputs :
          last' = VeluRecord(isog, velu(phi, isog))
    /\ pc' = "returned"
    /\ UNCHANGED phi

\* phi.velu(phi(T))
VeluGen ==
    /\ pc = "ready"
    /\ LET isog == [ore |-> TRUE, p |-> call(phi, T)]
       IN  last' = [VeluRecord(isog, velu(phi, isog)) EXCEPT !.op = "velu_gen"]
    /\ pc' = "returned"
    /\ UNCHANGED phi

\* isog in Hom(phi, psi), psi the module the last velu returned
HomContains ==
    /\ pc = "returned"
    /\ last.op \in {"velu", "velu_gen"}
    /\ last.status = "ok"
    /\ \E f \in {last.isog, <<>>, <<1>>} :
          last' = [last EXCEPT !.op = "contains", !.cand = f,
                               !.member = Hom_contains(phi, last.mod, f)]
    /\ UNCHANGED <<pc, phi>>

NextVelu == Construct(MaxRank + 1) \/ Discard \/ Velu \/ VeluGen \/ HomContains

SpecVelu == Init /\ [][NextVelu]_vars

\* phi(a)
Call ==
    /\ pc = "ready"
    /\ \E a \in FunctionRingElts(MaxDegA) :
          last' = [Blank EXCEPT !.op = "call", !.status = "ok", !.a = a,
                                !.image = call(phi, a)]
    /\ pc' = "returned"
    /\ UNCHANGED phi

NextCall == Construct(MaxRank + 1) \/ Discard \/ Call

SpecCall == Init /\ [][NextCall]_vars

\* -------------------------------------------------- coefficients and height
\* (a coefficient read with no range test: the dense list indexed as is)
coefficient_no_range_test(self, n) ==
    IF ~n.int THEN [status |-> "TypeError: input must be an integer", value |-> 0]
    ELSE IF n.v > rank(self) \/ n.v < -(rank(self) + 1) THEN
        [status |-> "IndexError: list index out of range", value |-> 0]
    ELSE [status |-> "ok",
          value |-> Coef(self.gen, IF n.v < 0 THEN n.v + rank(self) + 1 ELSE n.v)]

coefficient(self, n) ==
    IF ~n.int THEN [status |-> "TypeError: input must be an integer", value |-> 0]
    ELSE IF ~(0 <= n.v /\ n.v <= rank(self)) THEN
        [status |-> "ValueError: input must be >= 0 and <= rank", value |-> 0]
    ELSE [status |-> "ok", value |-> Coef(self.gen, n.v)]

HeightFailure(e) == [status |-> e, p |-> <<>>, valuation |-> 0, value |-> 0]

\* (a height that is the valuation itself, not divided by deg(p))
height_no_division(self) ==
    LET char == characteristic(self.cat)
    IN  IF char.status # "ok" THEN
            HeightFailure("NotImplementedError: height not implemented in this case")
        ELSE IF char.zero THEN
            HeightFailure("ValueError: height is defined for prime function field characteristic")
        ELSE LET v == Valuation(call(self, char.poly))
             IN  [status |-> "ok", p |-> char.poly, valuation |-> v, value |-> v]

\* (a height that takes characteristic zero for a prime of degree 1)
height_no_zero_test(self) ==
    LET char == characteristic(self.cat)
    IN  IF char.status # "ok" THEN
            HeightFailure("NotImplementedError: height not implemented in this case")
        ELSE IF char.zero THEN
            [status |-> "ok", p |-> <<>>, valuation |-> 0, value |-> 0]
        ELSE LET v == Valuation(call(self, char.poly))
             IN  [status |-> "ok", p |-> char.poly, valuation |-> v,
                  value |-> v \div Degree(char.poly)]

height(self) ==
    LET char == characteristic(self.cat)
    IN  IF char.status # "ok" THEN
            HeightFailure("NotImplementedError: height not implemented in this case")
        ELSE IF char.zero THEN
            HeightFailure("ValueError: height is defined for prime function field characteristic")
        ELSE LET v == Valuation(call(self, char.poly))
             IN  [status |-> "ok", p |-> char.poly, valuation |-> v,
                  value |-> v \div Degree(char.poly)]

\* arguments of coefficient: the integers around 0..rank, a non-integer
CoefficientInputs == {[int |-> TRUE, v |-> v] : v \in (-2)..(MaxRank + 2)}
                     \cup {[int |-> FALSE, v |-> 0]}

\* phi.coefficient(n)
Coefficient ==
    /\ pc = "ready"
    /\ \E n \in CoefficientInputs :
          LET res == coefficient(phi, n)
          IN  last' = [Blank EXCEPT !.op = "coefficient", !.status = res.status,
                                    !.n = n, !.value = res.value]
    /\ pc' = "returned"
    /\ UNCHANGED phi

\* phi.height()
Height ==
    /\ pc = "ready"
    /\ LET res == height(phi)
       IN  last' = [Blank EXCEPT !.op = "height", !.status = res.status,
                                 !.p = res.p, !.valuation = res.valuation,
                                 !.value = res.value]
    /\ pc' = "returned"
    /\ UNCHANGED phi

\* coefficient lists over {0, T} in FracA
FracAGenInputs(maxLen) ==
    {[type |-> "list", coeffs |-> c, universe |-> "FracA"] :
        c \in SeqsUpTo({0, TElt}, maxLen)}

NextInspect ==
    ConstructFrom(FunctionRings, GenInputs(MaxRank + 2) \cup FracAGenInputs(MaxRank + 1))
        \/ Discard \/ Coefficient \/ Height

SpecInspect == Init /\ [][NextInspect]_vars

\* ---------------------------------------------------------------- division
\* A.right_quo_rem(B) on operands chosen beforehand
InitDivide ==
    /\ pc = "start"
    /\ phi = NoModule
    /\ last \in {[Blank EXCEPT !.op = "operands", !.dividend = A, !.divisor = B] :
                    A \in OrePolys(MaxDegDiv + 1), B \in OrePolys(MaxDegDiv)}

Divide ==
    /\ pc = "start"
    /\ last.op = "operands"
    /\ LET r == right_quo_rem(last.dividend, last.divisor)
       IN  last' = [last EXCEPT !.op = "right_quo_rem", !.status = r.status,
                                !.quo = r.quo, !.rem = r.rem]
    /\ pc' = "returned"
    /\ UNCHANGED phi

NextDivide == Divide

SpecDivide == InitDivide /\ [][NextDivide]_vars

\* ------------------------------------------------ basic j-invariant engine
RECURSIVE GCD(_, _)
GCD(a, b) == IF b = 0 THEN (IF a < 0 THEN -a ELSE a) ELSE GCD(b, a % (IF b < 0 THEN -b ELSE b))

RECURSIVE gcd(_)
gcd(p) == IF p = <<>> THEN 0 ELSE GCD(p[1], gcd(Tail(p)))

RECURSIVE SetToSeq(_)
SetToSeq(S) == IF S = {} THEN <<>>
               ELSE LET x == CHOOSE y \in S : TRUE
                    IN  <<x>> \o SetToSeq(S \ {x})

SeqMax(s) == CHOOSE x \in {s[i] : i \in 1..Len(s)} : \A i \in 1..Len(s) : s[i] <= x

SeqMin(s) == CHOOSE x \in {s[i] : i \in 1..Len(s)} : \A i \in 1..Len(s) : x <= s[i]

\* P.integral_points() of Polyhedron(ieqs, eqns = [eqn]) in dimension dim:
\* every integer x with eqn[1] + sum_j eqn[j+1]*x[j] = 0 and
\* e[1] + sum_j e[j+1]*x[j] >= 0 for each e of ieqs.  Each ieq of this
\* polytope bounds one coordinate; the last coordinate is fixed by eqn.
Dot(e, x) == LET t(j) == e[j + 1] * x[j] IN e[1] + ISum(t, 1, Len(x))

CoordRange(ieqs, j) ==
    LET mine == {i \in 1..Len(ieqs) : ieqs[i][j + 1] # 0}
        top == SeqMax([i \in 1..Len(ieqs) |-> ieqs[i][1]]) + 1
    IN  {v \in (-1)..top : \A i \in mine : ieqs[i][1] + ieqs[i][j + 1] * v >= 0}

RECURSIVE Prefixes(_, _)
Prefixes(ieqs, j) ==
    IF j = 0 THEN {<<>>}
    ELSE {Append(x, v) : x \in Prefixes(ieqs, j - 1), v \in CoordRange(ieqs, j)}

integral_points(ieqs, eqn, dim) ==
    LET lead == eqn[dim + 1]
        part(x) == Dot(SubSeq(eqn, 1, dim), x)
        size == IF lead < 0 THEN -lead ELSE lead
        solve(x) == IF lead < 0 THEN part(x) \div size ELSE (-part(x)) \div size
        pts == {Append(x, solve(x)) :
                    x \in {y \in Prefixes(ieqs, dim - 1) : part(y) % size = 0}}
    IN  SetToSeq({x \in pts : Dot(eqn, x) = 0})

\* [0, q^k1 - 1, ..., q^kn - 1, 1 - q^r]
equation(coeff_indices, r) ==
    <<0>> \o [i \in 1..Len(coeff_indices) |-> IntPow(q, coeff_indices[i]) - 1]
          \o <<1 - IntPow(q, r)>>

UnitRow(n, c, at, v) == [j \in 1..n |-> IF j = 1 THEN c ELSE IF j = at THEN v ELSE 0]

\* (the box with every upper bound one too small)
inequalities_tight(coeff_indices, r) ==
    LET n == Len(coeff_indices)
        lower(idx) == UnitRow(n + 2, 0, idx + 1, 1)
        upper(idx) == UnitRow(n + 2,
                        (IntPow(q, r) - 1) \div (IntPow(q, GCD(coeff_indices[idx], r)) - 1) - 1,
                        idx + 1, -1)
    IN  [i \in 1..(2 * n) |-> IF i % 2 = 1 THEN lower((i + 1) \div 2) ELSE upper(i \div 2)]

\* (the box without the rows 0 <= d_i)
inequalities_no_lower(coeff_indices, r) ==
    LET n == Len(coeff_indices)
        lower(idx) == UnitRow(n + 2, 0, idx + 1, 1)
        upper(idx) == UnitRow(n + 2,
                        (IntPow(q, r) - 1) \div (IntPow(q, GCD(coeff_indices[idx], r)) - 1),
                        idx + 1, -1)
    IN  [i \in 1..n |-> upper(i)]

\* 0 <= d_i and d_i <= (q^r - 1)/(q^gcd(k_i, r) - 1), two rows per index
inequalities(coeff_indices, r) ==
    LET n == Len(coeff_indices)
        lower(idx) == UnitRow(n + 2, 0, idx + 1, 1)
        upper(idx) == UnitRow(n + 2,
                        (IntPow(q, r) - 1) \div (IntPow(q, GCD(coeff_indices[idx], r)) - 1),
                        idx + 1, -1)
    IN  [i \in 1..(2 * n) |-> IF i % 2 = 1 THEN lower((i + 1) \div 2) ELSE upper(i \div 2)]

ParamFailure(e) == [status |-> e, indices |-> <<>>, points |-> <<>>, params |-> <<>>]

IsNonzero(x) == x # 0

StrictlyIncreasing(s) == \A i \in 1..(Len(s) - 1) : s[i] < s[i + 1]

\* (the enumeration without the filter gcd(p) == 1)
enumerate_parameters_no_gcd(indices, r) ==
    LET pts == integral_points(inequalities(indices, r), equation(indices, r),
                               Len(indices) + 1)
    IN  [status |-> "ok", indices |-> indices, points |-> pts,
         params |-> [i \in 1..Len(pts) |-> <<indices, pts[i]>>]]

\* the polytope of the index list, its integral points, those of gcd 1
enumerate_parameters(indices, r) ==
    LET pts == integral_points(inequalities(indices, r), equation(indices, r),
                               Len(indices) + 1)
        keep(p) == gcd(p) = 1
        kept == SelectSeq(pts, keep)
    IN  [status |-> "ok", indices |-> indices, points |-> pts,
         params |-> [i \in 1..Len(kept) |-> <<indices, kept[i]>>]]

\* (the enumeration with the nonzero flag ignored)
basic_j_invariant_parameters_no_filter(self, coeff_indices, nonzero) ==
    LET r == Degree(self.gen)
        keepNonzero(k) == self.gen[k + 1] # 0
    IN  IF coeff_indices.kind = "None" THEN
            enumerate_parameters(
                [k \in 1..(r - 1) |-> k], r)
        ELSE IF coeff_indices.kind \in {"list", "list_nonint"} THEN
            IF coeff_indices.kind = "list_nonint" THEN
                ParamFailure("TypeError: the elements of the list 'coeff_indices' must be integers")
            ELSE IF coeff_indices.list = <<>> THEN
                ParamFailure("ValueError: max() arg is an empty sequence")
            ELSE IF SeqMax(coeff_indices.list) >= r \/ SeqMin(coeff_indices.list) <= 0 THEN
                ParamFailure("ValueError: the maximum or the minimum of the list coeff_indices must be > 0 and < r respectively")
            ELSE IF ~StrictlyIncreasing(coeff_indices.list) THEN
                ParamFailure("ValueError: the elements of coeff_indices should be distinct and sorted")
            ELSE enumerate_parameters(
                    coeff_indices.list, r)
        ELSE ParamFailure("TypeError: input 'coeff_indices' must be NoneType, a tuple or a list")

basic_j_invariant_parameters(self, coeff_indices, nonzero) ==
    LET r == Degree(self.gen)
        keepNonzero(k) == self.gen[k + 1] # 0
    IN  IF coeff_indices.kind = "None" THEN
            enumerate_parameters(
                IF nonzero THEN SelectSeq([k \in 1..(r - 1) |-> k], keepNonzero)
                ELSE [k \in 1..(r - 1) |-> k], r)
        ELSE IF coeff_indices.kind \in {"list", "list_nonint"} THEN
            IF coeff_indices.kind = "list_nonint" THEN
                ParamFailure("TypeError: the elements of the list 'coeff_indices' must be integers")
            ELSE IF coeff_indices.list = <<>> THEN
                ParamFailure("ValueError: max() arg is an empty sequence")
            ELSE IF SeqMax(coeff_indices.list) >= r \/ SeqMin(coeff_indices.list) <= 0 THEN
                ParamFailure("ValueError: the maximum or the minimum of the list coeff_indices must be > 0 and < r respectively")
            ELSE IF ~StrictlyIncreasing(coeff_indices.list) THEN
                ParamFailure("ValueError: the elements of coeff_indices should be distinct and sorted")
            ELSE enumerate_parameters(
                    IF nonzero THEN SelectSeq(coeff_indices.list, keepNonzero)
                    ELSE coeff_indices.list, r)
        ELSE ParamFailure("TypeError: input 'coeff_indices' must be NoneType, a tuple or a list")

\* coeff_indices arguments for a module of rank r: None, the increasing
\* lists over 0..r, the lists <<a, b>> with a >= b, a list with a
\* non-integer entry, a string
CoeffIndexInputs(r) ==
    {[kind |-> "None", list |-> <<>>], [kind |-> "str", list |-> <<>>],
     [kind |-> "list_nonint", list |-> <<1>>]}
    \cup {[kind |-> "list", list |-> s] :
            s \in {t \in SeqsUpTo(0..r, r + 1) : StrictlyIncreasing(t)}}
    \cup {[kind |-> "list", list |-> <<ab[1], ab[2]>>] :
            ab \in {x \in (1..(r - 1)) \X (1..(r - 1)) : x[2] <= x[1]}}

\* phi.basic_j_invariant_parameters(coeff_indices, nonzero)
BasicJInvariantParameters ==
    /\ pc = "ready"
    /\ \E ci \in CoeffIndexInputs(rank(phi)), nz \in BOOLEAN :
          LET res == basic_j_invariant_parameters(phi, ci, nz)
          IN  last' = [Blank EXCEPT !.op = "basic_j_invariant_parameters",
                                    !.status = res.status, !.coeff_indices = ci,
                                    !.nonzero = nz, !.indices = res.indices,
                                    !.points = res.points, !.params = res.params]
    /\ pc' = "returned"
    /\ UNCHANGED phi

\* coefficient lists over {0, 1, z} in K
KGenInputs(maxLen) ==
    {[type |-> "list", coeffs |-> c, universe |-> "K"] : c \in SeqsUpTo(0..2, maxLen)}

NextParams == ConstructFrom({"Fq[T]"}, KGenInputs(MaxRankJ + 1)) \/ Discard
                \/ BasicJInvariantParameters

SpecParams == Init /\ [][NextParams]_vars

\* ------------------------------------------------------------- j-invariants
\* gen[k]: the k-th coefficient, 0 past the degree; a negative k counts
\* from the leading coefficient (gen[-1]) as the coefficient list does
Item(gen, k) ==
    IF k >= 0 THEN Coef(gen, k)
    ELSE IF -k <= Len(gen) THEN gen[Len(gen) + k + 1]
    ELSE 0

JFailure(e) == [status |-> e, value |-> 0]

\* x ** d for an integer d
Power(x, d) ==
    IF d >= 0 THEN [status |-> "ok", value |-> FPow(x, d)]
    ELSE IF x = 0 THEN JFailure("ZeroDivisionError")
    ELSE [status |-> "ok", value |-> FPow(FInv(x), -d)]

\* num / den of two computed values
Quotient(num, den) ==
    IF num.status # "ok" THEN num
    ELSE IF den.status # "ok" THEN den
    ELSE IF den.value = 0 THEN JFailure("ZeroDivisionError")
    ELSE [status |-> "ok", value |-> FDiv(num.value, den.value)]

\* prod(gen[k] ** d for k, d in zip(keys, exps[:-1])), from position i on
RECURSIVE Product(_, _, _, _)
Product(gen, keys, exps, i) ==
    IF i > Len(keys) \/ i > Len(exps) - 1 THEN [status |-> "ok", value |-> 1]
    ELSE LET head == Power(Item(gen, keys[i]), exps[i])
             rest == Product(gen, keys, exps, i + 1)
         IN  IF head.status # "ok" THEN head
             ELSE IF rest.status # "ok" THEN rest
             ELSE [status |-> "ok", value |-> FMul(head.value, rest.value)]

\* sum_i ds[i] (q^ks[i] - 1)
Weight(ks, ds) == LET t(i) == ds[i] * (IntPow(q, ks[i]) - 1) IN ISum(t, 1, Len(ks))

\* (the rank-2 shortcut with exponent q in place of q + 1)
j_invariant_wrong_shortcut(self, parameter, check) ==
    LET r == Degree(self.gen)
        keys == parameter.keys
        exps == parameter.exps
    IN  IF parameter.kind = "None" THEN
            IF r # 2 THEN
                JFailure("TypeError: input 'parameter' must be different from NoneType if the rank is greater than 2")
            ELSE Quotient(Power(Item(self.gen, 1), q), Power(Item(self.gen, 2), 1))
        ELSE IF parameter.kind = "int" THEN
            IF parameter.k <= 0 \/ parameter.k >= r THEN
                JFailure("ValueError: input 'parameter' must be >= 1 or < the rank")
            ELSE LET dk == (IntPow(q, r) - 1) \div (IntPow(q, GCD(parameter.k, r)) - 1)
                     dr == (IntPow(q, parameter.k) - 1) \div (IntPow(q, GCD(parameter.k, r)) - 1)
                 IN  Quotient(Power(Item(self.gen, parameter.k), dk),
                              Power(Item(self.gen, -1), dr))
        ELSE IF parameter.kind \in {"tuple", "tuple3", "first_not_tuple", "second_not_tuple",
                                    "first_nonint", "second_nonint"} THEN
            IF parameter.kind = "tuple3" THEN
                JFailure("ValueError: input 'parameter' must be of length 2")
            ELSE IF parameter.kind = "first_not_tuple" THEN
                JFailure("TypeError: first entry of input 'parameter' must be a tuple")
            ELSE IF parameter.kind = "second_not_tuple" THEN
                JFailure("TypeError: second entry of input 'parameter' must be a tuple")
            ELSE IF ~(Len(keys) < r) \/ ~(Len(exps) = Len(keys) + 1) THEN
                JFailure("ValueError: tuples of input 'parameters' are of incorrect length")
            ELSE IF parameter.kind = "first_nonint" THEN
                JFailure("TypeError: first tuple of input 'parameter' must contain only integers")
            ELSE IF parameter.kind = "second_nonint" THEN
                JFailure("TypeError: second tuple of input 'parameter' must contain only integers")
            ELSE IF check /\ Weight(keys, exps) # exps[Len(exps)] * (IntPow(q, r) - 1) THEN
                JFailure("ValueError: input 'parameter' does not satisfy the weight-0 condition")
            ELSE Quotient(Product(self.gen, keys, exps, 1),
                          Power(Item(self.gen, -1), exps[Len(exps)]))
        ELSE JFailure("TypeError: input 'parameter' must be a tuple of length 2 or an integer")

\* (a j_invariant that tests the weight-0 condition whatever check is)
j_invariant_always_check(self, parameter, check) ==
    LET r == Degree(self.gen)
        keys == parameter.keys
        exps == parameter.exps
    IN  IF parameter.kind = "None" THEN
            IF r # 2 THEN
                JFailure("TypeError: input 'parameter' must be different from NoneType if the rank is greater than 2")
            ELSE Quotient(Power(Item(self.gen, 1), q + 1), Power(Item(self.gen, 2), 1))
        ELSE IF parameter.kind = "int" THEN
            IF parameter.k <= 0 \/ parameter.k >= r THEN
                JFailure("ValueError: input 'parameter' must be >= 1 or < the rank")
            ELSE LET dk == (IntPow(q, r) - 1) \div (IntPow(q, GCD(parameter.k, r)) - 1)
                     dr == (IntPow(q, parameter.k) - 1) \div (IntPow(q, GCD(parameter.k, r)) - 1)
                 IN  Quotient(Power(Item(self.gen, parameter.k), dk),
                              Power(Item(self.gen, -1), dr))
        ELSE IF parameter.kind \in {"tuple", "tuple3", "first_not_tuple", "second_not_tuple",
                                    "first_nonint", "second_nonint"} THEN
            IF parameter.kind = "tuple3" THEN
                JFailure("ValueError: input 'parameter' must be of length 2")
            ELSE IF parameter.kind = "first_not_tuple" THEN
                JFailure("TypeError: first entry of input 'parameter' must be a tuple")
            ELSE IF parameter.kind = "second_not_tuple" THEN
                JFailure("TypeError: second entry of input 'parameter' must be a tuple")
            ELSE IF ~(Len(keys) < r) \/ ~(Len(exps) = Len(keys) + 1) THEN
                JFailure("ValueError: tuples of input 'parameters' are of incorrect length")
            ELSE IF parameter.kind = "first_nonint" THEN
                JFailure("TypeError: first tuple of input 'parameter' must contain only integers")
            ELSE IF parameter.kind = "second_nonint" THEN
                JFailure("TypeError: second tuple of input 'parameter' must contain only integers")
            ELSE IF TRUE /\ Weight(keys, exps) # exps[Len(exps)] * (IntPow(q, r) - 1) THEN
                JFailure("ValueError: input 'parameter' does not satisfy the weight-0 condition")
            ELSE Quotient(Product(self.gen, keys, exps, 1),
                          Power(Item(self.gen, -1), exps[Len(exps)]))
        ELSE JFailure("TypeError: input 'parameter' must be a tuple of length 2 or an integer")

\* (a j_invariant that leaves out the division by g_r^d_r)
j_invariant_no_denominator(self, parameter, check) ==
    LET r == Degree(self.gen)
        keys == parameter.keys
        exps == parameter.exps
    IN  IF parameter.kind = "None" THEN
            IF r # 2 THEN
                JFailure("TypeError: input 'parameter' must be different from NoneType if the rank is greater than 2")
            ELSE Quotient(Power(Item(self.gen, 1), q + 1), Power(Item(self.gen, 2), 1))
        ELSE IF parameter.kind = "int" THEN
            IF parameter.k <= 0 \/ parameter.k >= r THEN
                JFailure("ValueError: input 'parameter' must be >= 1 or < the rank")
            ELSE LET dk == (IntPow(q, r) - 1) \div (IntPow(q, GCD(parameter.k, r)) - 1)
                     dr == (IntPow(q, parameter.k) - 1) \div (IntPow(q, GCD(parameter.k, r)) - 1)
                 IN  Quotient(Power(Item(self.gen, parameter.k), dk),
                              Power(Item(self.gen, -1), dr))
        ELSE IF parameter.kind \in {"tuple", "tuple3", "first_not_tuple", "second_not_tuple",
                                    "first_nonint", "second_nonint"} THEN
            IF parameter.kind = "tuple3" THEN
                JFailure("ValueError: input 'parameter' must be of length 2")
            ELSE IF parameter.kind = "first_not_tuple" THEN
                JFailure("TypeError: first entry of input 'parameter' must be a tuple")
            ELSE IF parameter.kind = "second_not_tuple" THEN
                JFailure("TypeError: second entry of input 'parameter' must be a tuple")
            ELSE IF ~(Len(keys) < r) \/ ~(Len(exps) = Len(keys) + 1) THEN
                JFailure("ValueError: tuples of input 'parameters' are of incorrect length")
            ELSE IF parameter.kind = "first_nonint" THEN
                JFailure("TypeError: first tuple of input 'parameter' must contain only integers")
            ELSE IF parameter.kind = "second_nonint" THEN
                JFailure("TypeError: second tuple of input 'parameter' must contain only integers")
            ELSE IF check /\ Weight(keys, exps) # exps[Len(exps)] * (IntPow(q, r) - 1) THEN
                JFailure("ValueError: input 'parameter' does not satisfy the weight-0 condition")
            ELSE Quotient(Product(self.gen, keys, exps, 1),
                          Power(Item(self.gen, -1), 0))
        ELSE JFailure("TypeError: input 'parameter' must be a tuple of length 2 or an integer")

\* (a j_invariant that takes any integer parameter as an index)
j_invariant_no_int_range_test(self, parameter, check) ==
    LET r == Degree(self.gen)
        keys == parameter.keys
        exps == parameter.exps
    IN  IF parameter.kind = "None" THEN
            IF r # 2 THEN
                JFailure("TypeError: input 'parameter' must be different from NoneType if the rank is greater than 2")
            ELSE Quotient(Power(Item(self.gen, 1), q + 1), Power(Item(self.gen, 2), 1))
        ELSE IF parameter.kind = "int" THEN
            IF FALSE THEN
                JFailure("ValueError: input 'parameter' must be >= 1 or < the rank")
            ELSE LET dk == (IntPow(q, r) - 1) \div (IntPow(q, GCD(parameter.k, r)) - 1)
                     dr == (IntPow(q, parameter.k) - 1) \div (IntPow(q, GCD(parameter.k, r)) - 1)
                 IN  Quotient(Power(Item(self.gen, parameter.k), dk),
                              Power(Item(self.gen, -1), dr))
        ELSE IF parameter.kind \in {"tuple", "tuple3", "first_not_tuple", "second_not_tuple",
                                    "first_nonint", "second_nonint"} THEN
            IF parameter.kind = "tuple3" THEN
                JFailure("ValueError: input 'parameter' must be of length 2")
            ELSE IF parameter.kind = "first_not_tuple" THEN
                JFailure("TypeError: first entry of input 'parameter' must be a tuple")
            ELSE IF parameter.kind = "second_not_tuple" THEN
                JFailure("TypeError: second entry of input 'parameter' must be a tuple")
            ELSE IF ~(Len(keys) < r) \/ ~(Len(exps) = Len(keys) + 1) THEN
                JFailure("ValueError: tuples of input 'parameters' are of incorrect length")
            ELSE IF parameter.kind = "first_nonint" THEN
                JFailure("TypeError: first tuple of input 'parameter' must contain only integers")
            ELSE IF parameter.kind = "second_nonint" THEN
                JFailure("TypeError: second tuple of input 'parameter' must contain only integers")
            ELSE IF check /\ Weight(keys, exps) # exps[Len(exps)] * (IntPow(q, r) - 1) THEN
                JFailure("ValueError: input 'parameter' does not satisfy the weight-0 condition")
            ELSE Quotient(Product(self.gen, keys, exps, 1),
                          Power(Item(self.gen, -1), exps[Len(exps)]))
        ELSE JFailure("TypeError: input 'parameter' must be a tuple of length 2 or an integer")

\* phi.j_invariant(parameter, check): [status, value]
j_invariant(self, parameter, check) ==
    LET r == Degree(self.gen)
        keys == parameter.keys
        exps == parameter.exps
    IN  IF parameter.kind = "None" THEN
            IF r # 2 THEN
                JFailure("TypeError: input 'parameter' must be different from NoneType if the rank is greater than 2")
            ELSE Quotient(Power(Item(self.gen, 1), q + 1), Power(Item(self.gen, 2), 1))
        ELSE IF parameter.kind = "int" THEN
            IF parameter.k <= 0 \/ parameter.k >= r THEN
                JFailure("ValueError: input 'parameter' must be >= 1 or < the rank")
            ELSE LET dk == (IntPow(q, r) - 1) \div (IntPow(q, GCD(parameter.k, r)) - 1)
                     dr == (IntPow(q, parameter.k) - 1) \div (IntPow(q, GCD(parameter.k, r)) - 1)
                 IN  Quotient(Power(Item(self.gen, parameter.k), dk),
                              Power(Item(self.gen, -1), dr))
        ELSE IF parameter.kind \in {"tuple", "tuple3", "first_not_tuple", "second_not_tuple",
                                    "first_nonint", "second_nonint"} THEN
            IF parameter.kind = "tuple3" THEN
                JFailure("ValueError: input 'parameter' must be of length 2")
            ELSE IF parameter.kind = "first_not_tuple" THEN
                JFailure("TypeError: first entry of input 'parameter' must be a tuple")
            ELSE IF parameter.kind = "second_not_tuple" THEN
                JFailure("TypeError: second entry of input 'parameter' must be a tuple")
            ELSE IF ~(Len(keys) < r) \/ ~(Len(exps) = Len(keys) + 1) THEN
                JFailure("ValueError: tuples of input 'parameters' are of incorrect length")
            ELSE IF parameter.kind = "first_nonint" THEN
                JFailure("TypeError: first tuple of input 'parameter' must contain only integers")
            ELSE IF parameter.kind = "second_nonint" THEN
                JFailure("TypeError: second tuple of input 'parameter' must contain only integers")
            ELSE IF check /\ Weight(keys, exps) # exps[Len(exps)] * (IntPow(q, r) - 1) THEN
                JFailure("ValueError: input 'parameter' does not satisfy the weight-0 condition")
            ELSE Quotient(Product(self.gen, keys, exps, 1),
                          Power(Item(self.gen, -1), exps[Len(exps)]))
        ELSE JFailure("TypeError: input 'parameter' must be a tuple of length 2 or an integer")

NoParameter == [kind |-> "None", k |-> 0, keys |-> <<>>, exps |-> <<>>]

\* the exponent tuples (d_1, ..., d_n, d_r) with d_i in 0..MaxExp, d_r in {0, 1}
ExpInputs(n) ==
    {e \in [1..(n + 1) -> 0..MaxExp] : e[n + 1] <= 1}

\* parameter arguments for a module of rank r: None, an integer, a string,
\* a tuple of the wrong shape, and the pairs (keys, exps) with no key, one
\* key in 0..r or two keys in 1..r-1, sorted or not
ParameterInputs(r) ==
    {NoParameter}
    \cup {[NoParameter EXCEPT !.kind = k] :
            k \in {"str", "tuple3", "first_not_tuple", "second_not_tuple"}}
    \cup {[NoParameter EXCEPT !.kind = "int", !.k = k] : k \in 0..r}
    \cup {[NoParameter EXCEPT !.kind = k, !.keys = <<1>>, !.exps = <<1, 1>>] :
            k \in {"first_nonint", "second_nonint"}}
    \cup {[NoParameter EXCEPT !.kind = "tuple", !.keys = <<1>>, !.exps = e] :
            e \in {<<1>>, <<1, 1, 1>>}}
    \cup {[NoParameter EXCEPT !.kind = "tuple", !.keys = <<>>, !.exps = e] :
            e \in ExpInputs(0)}
    \cup {[NoParameter EXCEPT !.kind = "tuple", !.keys = <<k>>, !.exps = e] :
            k \in 0..r, e \in ExpInputs(1)}
    \cup {[NoParameter EXCEPT !.kind = "tuple", !.keys = <<ab[1], ab[2]>>, !.exps = e] :
            ab \in (1..(r - 1)) \X (1..(r - 1)), e \in ExpInputs(2)}

\* phi.j_invariant(parameter, check)
JInvariant ==
    /\ pc = "ready"
    /\ \E parameter \in ParameterInputs(rank(phi)), check \in BOOLEAN :
          LET res == j_invariant(phi, parameter, check)
          IN  last' = [Blank EXCEPT !.op = "j_invariant", !.status = res.status,
                                    !.parameter = parameter, !.check = check,
                                    !.value = res.value]
    /\ pc' = "returned"
    /\ UNCHANGED phi

NextInvariant == ConstructFrom({"Fq[T]"}, KGenInputs(MaxRankJ + 1)) \/ Discard
                    \/ JInvariant

SpecInvariant == Init /\ [][NextInvariant]_vars

\* ------------------------------------------------------------- isomorphism
\* all(bool(g_self) == bool(g_psi) for g_self, g_psi in zip(...))
SamePattern(g, h) ==
    \A i \in 1..(IF Len(g) <= Len(h) THEN Len(g) ELSE Len(h)) : (g[i] # 0) <=> (h[i] # 0)

\* a parameter ((k_1..k_n), (d_1..d_n, d_r)) as an argument of j_invariant
AsParameter(p) == [NoParameter EXCEPT !.kind = "tuple", !.keys = p[1], !.exps = p[2]]

\* (an isomorphism test that does not compare the ranks)
is_isomorphic_no_rank_test(self, psi) ==
    IF self.gen = psi.gen THEN TRUE
    ELSE IF Degree(self.gen) = 1 THEN TRUE
    ELSE IF ~SamePattern(self.gen, psi.gen) THEN FALSE
    ELSE LET params == basic_j_invariant_parameters(self, [kind |-> "None", list |-> <<>>], TRUE).params
         IN  \A i \in 1..Len(params) :
                j_invariant(self, AsParameter(params[i]), FALSE)
                    = j_invariant(psi, AsParameter(params[i]), FALSE)

\* (an isomorphism test that does not compare the zero patterns)
is_isomorphic_no_pattern_test(self, psi) ==
    IF self.gen = psi.gen THEN TRUE
    ELSE IF Degree(self.gen) # Degree(psi.gen) THEN FALSE
    ELSE IF Degree(self.gen) = 1 THEN TRUE
    ELSE LET params == basic_j_invariant_parameters(self, [kind |-> "None", list |-> <<>>], TRUE).params
         IN  \A i \in 1..Len(params) :
                j_invariant(self, AsParameter(params[i]), FALSE)
                    = j_invariant(psi, AsParameter(params[i]), FALSE)

\* phi.is_isomorphic(psi)
is_isomorphic(self, psi) ==
    IF self.gen = psi.gen THEN TRUE
    ELSE IF Degree(self.gen) # Degree(psi.gen) THEN FALSE
    ELSE IF Degree(self.gen) = 1 THEN TRUE
    ELSE IF ~SamePattern(self.gen, psi.gen) THEN FALSE
    ELSE LET params == basic_j_invariant_parameters(self, [kind |-> "None", list |-> <<>>], TRUE).params
         IN  \A i \in 1..Len(params) :
                j_invariant(self, AsParameter(params[i]), FALSE)
                    = j_invariant(psi, AsParameter(params[i]), FALSE)

\* the modules DrinfeldModule(A, gen) builds from the coefficient lists gens
\* while live is alive
Modules(live, gens) ==
    {r.mod : r \in {s \in {classcall_private(live, "Fq[T]", gen) : gen \in gens} :
                        s.status = "ok"}}

\* phi.is_isomorphic(psi)
IsIsomorphic ==
    /\ pc = "ready"
    /\ \E psi \in Modules(phi, KGenInputs(MaxRankJ + 1)) :
          last' = [Blank EXCEPT !.op = "is_isomorphic", !.status = "ok",
                                !.psi = psi, !.answer = is_isomorphic(phi, psi)]
    /\ pc' = "returned"
    /\ UNCHANGED phi

\* the coefficients g_k c^(q^k - 1), k = 0..r
Scale(gen, c) == [i \in 1..Len(gen) |-> FMul(gen[i], FPow(c, IntPow(q, i - 1) - 1))]

\* phi.is_isomorphic(psi), psi built from the coefficients of phi scaled by c
IsIsomorphicScaled ==
    /\ pc = "ready"
    /\ \E c \in FieldElts \ {0} :
          LET built == classcall_private(phi, "Fq[T]",
                          [type |-> "list", coeffs |-> Scale(phi.gen, c), universe |-> "K"])
          IN  /\ built.status = "ok"
              /\ last' = [Blank EXCEPT !.op = "is_isomorphic", !.status = "ok",
                                       !.value = c, !.psi = built.mod,
                                       !.answer = is_isomorphic(phi, built.mod)]
    /\ pc' = "returned"
    /\ UNCHANGED phi

NextIsomorphic == ConstructFrom({"Fq[T]"}, KGenInputs(MaxRankJ + 1)) \/ Discard
                    \/ IsIsomorphic \/ IsIsomorphicScaled

SpecIsomorphic == Init /\ [][NextIsomorphic]_vars

\* ------------------------------------------------------------ whole session
\* self._gen.coefficients(sparse): the nonzero coefficients, or all of them
coefficients(self, sparse) ==
    IF sparse THEN SelectSeq(self.gen, IsNonzero) ELSE self.gen

\* (the dictionary built from the parameters of nonzero = true)
basic_j_invariants_nonzero(self) ==
    LET params == basic_j_invariant_parameters(self, [kind |-> "None", list |-> <<>>], TRUE).params
        j(i) == j_invariant(self, AsParameter(params[i]), FALSE)
        bad == {i \in 1..Len(params) : j(i).status # "ok"}
    IN  IF bad # {} THEN
            [status |-> j(CHOOSE i \in bad : \A k \in bad : i <= k).status, entries |-> <<>>]
        ELSE [status |-> "ok",
              entries |-> [i \in 1..Len(params) |-> <<params[i], j(i).value>>]]

\* {p: self.j_invariant(p, check=False) for p in self.basic_j_invariant_parameters()}
basic_j_invariants(self) ==
    LET params == basic_j_invariant_parameters(self, [kind |-> "None", list |-> <<>>], FALSE).params
        j(i) == j_invariant(self, AsParameter(params[i]), FALSE)
        bad == {i \in 1..Len(params) : j(i).status # "ok"}
    IN  IF bad # {} THEN
            [status |-> j(CHOOSE i \in bad : \A k \in bad : i <= k).status, entries |-> <<>>]
        ELSE [status |-> "ok",
              entries |-> [i \in 1..Len(params) |-> <<params[i], j(i).value>>]]

\* phi.coefficients(sparse)
Coefficients ==
    /\ pc = "ready"
    /\ \E sparse \in BOOLEAN :
          last' = [Blank EXCEPT !.op = "coefficients", !.status = "ok",
                                !.sparse = sparse,
                                !.coefficients = coefficients(phi, sparse)]
    /\ pc' = "returned"
    /\ UNCHANGED phi

\* phi.rank()
Rank ==
    /\ pc = "ready"
    /\ last' = [Blank EXCEPT !.op = "rank", !.status = "ok", !.value = rank(phi)]
    /\ pc' = "returned"
    /\ UNCHANGED phi

\* phi.basic_j_invariants()
BasicJInvariants ==
    /\ pc = "ready"
    /\ LET res == basic_j_invariants(phi)
       IN  last' = [Blank EXCEPT !.op = "basic_j_invariants", !.status = res.status,
                                 !.entries = res.entries]
    /\ pc' = "returned"
    /\ UNCHANGED phi

\* coefficient lists over {0, 1, z} in K and in L
SessionGenInputs(maxLen) ==
    {[type |-> "list", coeffs |-> c, universe |-> U] :
        c \in SeqsUpTo(0..2, maxLen), U \in {"K", "L"}}

\* one module, then any sequence of calls of its methods
NextSession ==
    \/ ConstructFrom({"Fq[T]"}, SessionGenInputs(MaxRank + 1))
    \/ Discard
    \/ Call
    \/ Coefficient
    \/ Coefficients
    \/ Rank
    \/ Height
    \/ JInvariant
    \/ BasicJInvariantParameters
    \/ BasicJInvariants
    \/ IsIsomorphic
    \/ Velu
    \/ VeluGen

SpecSession == Init /\ [][NextSession]_vars

\* =================================================================== claims
IsParams == last.op = "basic_j_invariant_parameters" /\ last.status = "ok"

WeightZero(ks, ds, r) ==
    /\ Len(ds) = Len(ks) + 1
    /\ Weight(ks, ds) = ds[Len(ds)] * (IntPow(q, r) - 1)

\* C1: every parameter ((k_1..k_n), (d_1..d_n, d_r)) that
\* basic_j_invariant_parameters returns satisfies
\* sum_i d_i (q^k_i - 1) = d_r (q^r - 1) and gcd(d_1, ..., d_n, d_r) = 1.
Thm_C1_WeightZeroSound ==
    IsParams =>
        \A i \in 1..Len(last.params) :
            /\ WeightZero(last.params[i][1], last.params[i][2], rank(phi))
            /\ gcd(last.params[i][2]) = 1

Wit_C1_WeightZeroSound ==
    /\ IsParams
    /\ rank(phi) = MaxRankJ
    /\ last.indices = <<1, 2>>
    /\ Len(last.params) >= 3
    /\ \E i \in 1..Len(last.params) :
          /\ last.params[i][2][1] > 0
          /\ last.params[i][2][2] > 0
          /\ last.params[i][2][3] > 1
          /\ WeightZero(last.params[i][1], last.params[i][2], rank(phi))

UpperBound(k, r) == (IntPow(q, r) - 1) \div (IntPow(q, GCD(k, r)) - 1)

RECURSIVE Box(_, _, _)
Box(ks, r, n) ==
    IF n = 0 THEN {<<>>}
    ELSE {Append(d, v) : d \in Box(ks, r, n - 1), v \in 0..UpperBound(ks[n], r)}

IsVelu == last.op \in {"velu", "velu_gen"}

\* C3: whenever velu(g, f) returns a module with generator h, f*g = h*f in
\* the Ore ring, and f in Hom(g, h) is true.
Thm_C3_IsogenyRoundTrip ==
    /\ (IsVelu /\ last.status = "ok") =>
          OMul(last.isog, phi.gen) = OMul(last.mod.gen, last.isog)
    /\ (last.op = "contains" /\ last.cand = last.isog) =>
          /\ last.member
          /\ OMul(last.isog, phi.gen) = OMul(last.mod.gen, last.isog)

Wit_C3_IsogenyRoundTrip ==
    /\ last.op = "contains"
    /\ last.cand = last.isog
    /\ last.member
    /\ Degree(last.isog) >= 1
    /\ last.mod.gen # phi.gen
    /\ OMul(last.isog, phi.gen) = OMul(last.mod.gen, last.isog)

\* The isogeny criterion of C4 for the candidate f on the module self; the
\* criterion cannot hold where the characteristic is not defined.
Criterion(self, f) ==
    /\ f # <<>>
    /\ characteristic(self.cat).status = "ok"
    /\ divides(characteristic(self.cat).degree, Valuation(f))
    /\ right_quo_rem(OMul(f, self.gen), f).rem = <<>>

\* C4: for f in the Ore ring, velu(g, f) succeeds exactly when f # 0,
\* deg(characteristic) divides valuation(f) and the remainder of f*g by f is
\* zero, the codomain generator then being the quotient; in every other
\* case, generic characteristic included, it fails with NotAnIsogeny and
\* with no other error.
Claim_C4_VeluCriterion ==
    (IsVelu /\ last.given) =>
        IF Criterion(phi, last.isog)
        THEN /\ last.status = "ok"
             /\ last.mod.gen = right_quo_rem(OMul(last.isog, phi.gen), last.isog).quo
        ELSE last.status = NotAnIsogeny

Claim_C6_VeluOfGenerator ==
    last.op = "velu_gen" =>
        /\ last.status = "ok"
        /\ last.mod = phi
        /\ last.mod.id = phi.id

\* function-ring arithmetic in F_2[T]
PAdd(a, b) == Trim([k \in 1..Max(Len(a), Len(b)) |->
                        (Coef(a, k - 1) + Coef(b, k - 1)) % q])

PMul(a, b) ==
    IF a = <<>> \/ b = <<>> THEN <<>>
    ELSE Trim([k \in 1..(Len(a) + Len(b) - 1) |->
            LET t(i) == Coef(a, i) * Coef(b, k - 1 - i)
            IN  ISum(t, 0, k - 1) % q])

\* C7: evaluation is the ring homomorphism extending T |-> gen: it is
\* additive, multiplicative, and sends 1 to 1, 0 to 0 and T to gen.
Thm_C7_EvaluateHomomorphism ==
    last.op = "call" =>
        /\ \A b \in FunctionRingElts(MaxDegA) :
              /\ call(phi, PAdd(last.a, b)) = OAdd(last.image, call(phi, b))
              /\ call(phi, PMul(last.a, b)) = OMul(last.image, call(phi, b))
        /\ (last.a = <<1>> => last.image = <<1>>)
        /\ (last.a = <<>> => last.image = <<>>)
        /\ (last.a = T => last.image = phi.gen)

Wit_C7_EvaluateHomomorphism ==
    /\ last.op = "call"
    /\ last.a = <<1, 1>>
    /\ rank(phi) = MaxRank
    /\ \E k \in 1..Len(phi.gen) : phi.gen[k] \notin {0, 1}
    /\ last.image = OAdd(phi.gen, <<1>>)
    /\ call(phi, PMul(last.a, last.a)) = OMul(last.image, last.image)

\* C8: for every A and every nonzero B, right division returns (Q, R) with
\* A = Q*B + R and R = 0 or deg R < deg B; it fails, with an arithmetic
\* error, only when B = 0.
Thm_C8_RightDivision ==
    last.op = "right_quo_rem" =>
        /\ last.divisor # <<>> =>
              /\ last.status = "ok"
              /\ last.dividend = OAdd(OMul(last.quo, last.divisor), last.rem)
              /\ (last.rem = <<>> \/ Degree(last.rem) < Degree(last.divisor))
        /\ last.status # "ok" =>
              /\ last.divisor = <<>>
              /\ last.status = "ZeroDivisionError"

Wit_C8_RightDivision ==
    /\ last.op = "right_quo_rem"
    /\ last.status = "ok"
    /\ Degree(last.divisor) = MaxDegDiv
    /\ Degree(last.dividend) = MaxDegDiv + 1
    /\ last.rem # <<>>
    /\ last.quo # <<>>
    /\ OMul(last.quo, last.divisor) # OMul(last.divisor, last.quo)
    /\ last.dividend = OAdd(OMul(last.quo, last.divisor), last.rem)

IsListConstruct ==
    /\ last.op = "construct"
    /\ last.function_ring = "Fq[T]"
    /\ last.gen.type = "list"

Rejected == last.status # "ok" /\ phi = NoModule /\ pc = "failed"

\* C9: construction rejects a generator of degree <= 0, a generator whose
\* constant coefficient is zero, and coefficients in a ring with no coercion
\* from F_q; every module it returns has rank >= 1 and a nonzero constant
\* coefficient.
Thm_C9_ConstructionValidates ==
    /\ IsListConstruct =>
          /\ Degree(Trim(last.gen.coeffs)) <= 0 => Rejected
          /\ Coef(last.gen.coeffs, 0) = 0 => Rejected
          /\ ~has_coerce_map_from_Fq(last.gen.universe) => Rejected
          /\ (last.gen.coeffs # <<>> /\ Coef(last.gen.coeffs, 0) = 0) =>
                last.status = "ValueError: constant coefficient must be nonzero"
          /\ (Coef(last.gen.coeffs, 0) # 0 /\ ~has_coerce_map_from_Fq(last.gen.universe)) =>
                last.status = "ValueError: function ring base must coerce into base field"
          /\ (Coef(last.gen.coeffs, 0) # 0 /\ last.gen.universe \in {"K", "L"}
                /\ Degree(Trim(last.gen.coeffs)) <= 0) =>
                last.status = "ValueError: generator must have positive degree"
    /\ phi # NoModule =>
          /\ rank(phi) >= 1
          /\ Coef(phi.gen, 0) # 0
          /\ phi.gen = Trim(phi.gen)

Wit_C9_ConstructionValidates ==
    /\ IsListConstruct
    /\ last.gen.coeffs = <<2>>
    /\ last.gen.universe = "K"
    /\ last.status = "ValueError: generator must have positive degree"
    /\ Rejected

\* C10 as claimed: a coefficient list whose last coefficient is zero is
\* rejected, so a module built from a list of length L has rank L - 1.
Claim_C10_ListLengthIsRank ==
    IsListConstruct =>
        /\ (last.gen.coeffs # <<>> /\ last.gen.coeffs[Len(last.gen.coeffs)] = 0) => Rejected
        /\ last.status = "ok" => rank(phi) = Len(last.gen.coeffs) - 1

\* C10 amended: trailing zero coefficients of the list are dropped, not
\* refused: a module built from a list of length L has as rank the index of
\* the last nonzero coefficient, at most L - 1 and equal to L - 1 exactly
\* when the last coefficient is nonzero; a list over a field F_q coerces
\* into, with nonzero constant coefficient, is refused only when that index
\* is <= 0.
Thm_C10_TrailingZerosDropped ==
    IsListConstruct =>
        /\ last.status = "ok" =>
              /\ phi.gen = Trim(last.gen.coeffs)
              /\ rank(phi) <= Len(last.gen.coeffs) - 1
              /\ (rank(phi) = Len(last.gen.coeffs) - 1
                    <=> last.gen.coeffs[Len(last.gen.coeffs)] # 0)
        /\ (Coef(last.gen.coeffs, 0) # 0 /\ last.gen.universe \in {"K", "L"}) =>
              (last.status = "ok" <=> Degree(Trim(last.gen.coeffs)) >= 1)

Wit_C10_TrailingZerosDropped ==
    /\ IsListConstruct
    /\ last.status = "ok"
    /\ last.gen.coeffs = <<2, 1, 0>>
    /\ rank(phi) = 1
    /\ phi.gen = <<2, 1>>

\* C11: for a module of rank 1, basic_j_invariant_parameters called with no
\* coeff_indices, with nonzero false or true, returns the empty list.
Thm_C11_RankOneEmpty ==
    (/\ last.op = "basic_j_invariant_parameters"
     /\ last.coeff_indices.kind = "None"
     /\ rank(phi) = 1) =>
        /\ last.status = "ok"
        /\ last.indices = <<>>
        /\ last.params = <<>>

Wit_C11_RankOneEmpty ==
    /\ last.op = "basic_j_invariant_parameters"
    /\ last.coeff_indices.kind = "None"
    /\ last.nonzero
    /\ rank(phi) = 1
    /\ last.status = "ok"
    /\ last.points = <<(<<0>>)>>
    /\ last.params = <<>>

IsCoefficient == last.op = "coefficient" /\ last.n.int

InRange == 0 <= last.n.v /\ last.n.v <= rank(phi)

\* C12 as claimed: coefficient(n) returns the n-th coefficient of the
\* generator for every integer n with 0 <= n <= rank, and fails with an
\* IndexError for every integer n outside that range.
Claim_C12_CoefficientIndexError ==
    IsCoefficient =>
        /\ InRange => (last.status = "ok" /\ last.value = Coef(phi.gen, last.n.v))
        /\ ~InRange => last.status = "IndexError: list index out of range"

\* C12 amended: coefficient(n) returns the n-th coefficient of the
\* generator, zero coefficients included, for every integer n with
\* 0 <= n <= rank, and fails with ValueError('input must be >= 0 and <=
\* rank') for every integer n outside that range, negative n included.
Thm_C12_CoefficientValueError ==
    IsCoefficient =>
        /\ InRange => (last.status = "ok" /\ last.value = Coef(phi.gen, last.n.v))
        /\ ~InRange => last.status = "ValueError: input must be >= 0 and <= rank"

Wit_C12_CoefficientValueError ==
    /\ IsCoefficient
    /\ phi.gen = <<2, 0, 3>>
    /\ last.n.v = -1
    /\ last.status = "ValueError: input must be >= 0 and <= rank"

IsHeight == last.op = "height"

Thm_C14_HeightUndefined ==
    IsHeight =>
        /\ phi.cat.kind = "injective" =>
              last.status = "ValueError: height is defined for prime function field characteristic"
        /\ phi.cat.kind = "generic" =>
              last.status = "NotImplementedError: height not implemented in this case"
        /\ last.status = "ok" => phi.cat.kind = "finite"

Wit_C14_HeightUndefined ==
    /\ IsHeight
    /\ phi.cat.kind = "injective"
    /\ phi.gen = <<TElt, 0, TElt>>
    /\ last.status = "ValueError: height is defined for prime function field characteristic"

IsJInvariant == last.op = "j_invariant"

\* (prod_i g_{k_i}^{d_i}) / g_r^{d_r} for exponents d >= 0
RECURSIVE Numerator(_, _, _, _)
Numerator(gen, ks, ds, n) ==
    IF n = 0 THEN 1
    ELSE FMul(Numerator(gen, ks, ds, n - 1), FPow(Coef(gen, ks[n]), ds[n]))

Formula(gen, ks, ds) ==
    FDiv(Numerator(gen, ks, ds, Len(ks)), FPow(gen[Len(gen)], ds[Len(ds)]))

Classical == [NoParameter EXCEPT !.kind = "tuple", !.keys = <<1>>, !.exps = <<q + 1, 1>>]

\* C15: for a module of rank 2, j_invariant() with no parameter returns
\* g_1^(q+1) / g_2, the value j_invariant(((1,), (q+1, 1))) returns with
\* check = true; for coefficients [g_0, 1, 1] it is 1.
Thm_C15_RankTwoShortcut ==
    (IsJInvariant /\ last.parameter.kind = "None" /\ rank(phi) = 2) =>
        /\ last.status = "ok"
        /\ last.value = FDiv(FPow(phi.gen[2], q + 1), phi.gen[3])
        /\ j_invariant(phi, Classical, TRUE) = [status |-> "ok", value |-> last.value]
        /\ (phi.gen[2] = 1 /\ phi.gen[3] = 1) => last.value = 1

Wit_C15_RankTwoShortcut ==
    /\ IsJInvariant
    /\ last.parameter.kind = "None"
    /\ phi.gen = <<1, 2, 2>>
    /\ last.status = "ok"
    /\ last.value = 3

WellShaped ==
    /\ IsJInvariant
    /\ last.parameter.kind = "tuple"
    /\ Len(last.parameter.keys) < rank(phi)
    /\ Len(last.parameter.exps) = Len(last.parameter.keys) + 1

\* C16: for a tuple parameter of the right shape, j_invariant with check =
\* true fails with the weight-0 ValueError when sum_i d_i (q^k_i - 1) #
\* d_r (q^r - 1) and returns (prod_i g_{k_i}^{d_i}) / g_r^{d_r} otherwise;
\* with check = false it returns that value whether or not the weight-0
\* equality holds.
Thm_C16_CheckFlag ==
    WellShaped =>
        LET ks == last.parameter.keys
            ds == last.parameter.exps
        IN  IF last.check /\ ~WeightZero(ks, ds, rank(phi))
            THEN last.status = "ValueError: input 'parameter' does not satisfy the weight-0 condition"
            ELSE /\ last.status = "ok"
                 /\ last.value = Formula(phi.gen, ks, ds)

Wit_C16_CheckFlag ==
    /\ WellShaped
    /\ ~last.check
    /\ phi.gen = <<1, 2, 1, 2>>
    /\ last.parameter.keys = <<1, 2>>
    /\ last.parameter.exps = <<1, 1, 1>>
    /\ ~WeightZero(last.parameter.keys, last.parameter.exps, rank(phi))
    /\ last.status = "ok"
    /\ last.value = 1

\* C17 as claimed: with check = true, j_invariant returns no value for a
\* tuple parameter whose index tuple has an index outside [1, r-1] or is
\* not strictly increasing, or whose exponents violate the weight-0
\* condition.
Claim_C17_MalformedRejected ==
    (WellShaped /\ last.check) =>
        ((\/ \E i \in 1..Len(last.parameter.keys) :
                last.parameter.keys[i] \notin 1..(rank(phi) - 1)
          \/ ~StrictlyIncreasing(last.parameter.keys)
          \/ ~WeightZero(last.parameter.keys, last.parameter.exps, rank(phi)))
            => last.status # "ok")

ListSupplied ==
    /\ last.op = "basic_j_invariant_parameters"
    /\ last.coeff_indices.kind \in {"list", "list_nonint"}

InvalidIndices ==
    \/ last.coeff_indices.kind = "list_nonint"
    \/ \E i \in 1..Len(last.coeff_indices.list) :
          last.coeff_indices.list[i] \notin 1..(rank(phi) - 1)
    \/ ~StrictlyIncreasing(last.coeff_indices.list)

\* C18 as claimed: when coeff_indices is a list or tuple of any length, the
\* empty one included, basic_j_invariant_parameters fails exactly when an
\* entry is not an integer, an entry lies outside [1, r-1] or the entries
\* are not strictly increasing, and returns a parameter list for every
\* other list.
Claim_C18_IndexValidation ==
    ListSupplied => (last.status # "ok" <=> InvalidIndices)

IsIso == last.op = "is_isomorphic"

\* C19: is_isomorphic answers true when psi has the generator of phi,
\* whatever the rank and the zero pattern, and false when the ranks of phi
\* and psi differ.
Thm_C19_ReflexiveAndRank ==
    IsIso =>
        /\ last.psi.gen = phi.gen => last.answer
        /\ rank(last.psi) # rank(phi) => ~last.answer

Wit_C19_ReflexiveAndRank ==
    /\ IsIso
    /\ phi.gen = <<2, 0, 1, 2>>
    /\ last.psi = phi
    /\ last.answer

\* C20: for generators g # h of equal rank r, is_isomorphic is true when
\* r = 1, false when some index has a zero coefficient in one generator and
\* a nonzero one in the other, and otherwise true exactly when g and h have
\* the same j-invariant at every parameter of
\* g.basic_j_invariant_parameters(nonzero=True).
Thm_C20_IsomorphismDecision ==
    (IsIso /\ last.psi.gen # phi.gen /\ rank(last.psi) = rank(phi)) =>
        LET g == phi.gen
            h == last.psi.gen
            params == basic_j_invariant_parameters(phi, [kind |-> "None", list |-> <<>>], TRUE).params
        IN  IF rank(phi) = 1 THEN last.answer
            ELSE IF \E i \in 1..Len(g) : (g[i] = 0) # (h[i] = 0) THEN ~last.answer
            ELSE last.answer <=>
                    \A i \in 1..Len(params) :
                        Formula(g, params[i][1], params[i][2])
                            = Formula(h, params[i][1], params[i][2])

Wit_C20_IsomorphismDecision ==
    /\ IsIso
    /\ rank(phi) = 3
    /\ rank(last.psi) = 3
    /\ last.psi.gen # phi.gen
    /\ last.psi.gen[1] = phi.gen[1]
    /\ \A i \in 1..4 : phi.gen[i] # 0 /\ last.psi.gen[i] # 0
    /\ Len(basic_j_invariant_parameters(phi, [kind |-> "None", list |-> <<>>], TRUE).params) >= 2
    /\ last.answer

\* C22: with nonzero = true every returned parameter has an index tuple
\* made of indices k in 1..r-1, taken from coeff_indices when it is given,
\* whose coefficient g_k is nonzero, and the j-invariant at every returned
\* parameter is nonzero.
Thm_C22_NonzeroFilter ==
    (IsParams /\ last.nonzero) =>
        \A i \in 1..Len(last.params) :
            LET ks == last.params[i][1]
                j == j_invariant(phi, AsParameter(last.params[i]), FALSE)
            IN  /\ \A n \in 1..Len(ks) :
                      /\ ks[n] \in 1..(rank(phi) - 1)
                      /\ Coef(phi.gen, ks[n]) # 0
                      /\ last.coeff_indices.kind = "list" =>
                            \E m \in 1..Len(last.coeff_indices.list) :
                                last.coeff_indices.list[m] = ks[n]
                /\ j.status = "ok"
                /\ j.value # 0

Wit_C22_NonzeroFilter ==
    /\ IsParams
    /\ last.nonzero
    /\ phi.gen = <<2, 0, 2, 1>>
    /\ last.coeff_indices = [kind |-> "list", list |-> <<1, 2>>]
    /\ last.indices = <<2>>
    /\ Len(last.params) >= 1

\* C23: for every nonzero c of K, the module psi with coefficients
\* g_k c^(q^k - 1), k = 0..r, is found isomorphic to phi.
Thm_C23_ScalingInvariance ==
    IsIso =>
        \A c \in FieldElts \ {0} :
            last.psi.gen = Scale(phi.gen, c) => last.answer

Wit_C23_ScalingInvariance ==
    /\ IsIso
    /\ phi.gen = <<1, 2, 1, 2>>
    /\ last.value = 2
    /\ last.psi.gen = <<1, 3, 1, 3>>
    /\ last.answer

Thm_C25_PositiveDenominator ==
    IsParams =>
        /\ LET rows == inequalities(last.indices, rank(phi))
           IN  \A i \in 1..Len(rows) : rows[i][Len(last.indices) + 2] = 0
        /\ \A i \in 1..Len(last.params) :
              LET ds == last.params[i][2]
              IN  /\ Len(ds) = Len(last.indices) + 1
                  /\ \A j \in 1..(Len(ds) - 1) : ds[j] >= 0
                  /\ ds[Len(ds)] >= 1
                  /\ \E j \in 1..Len(ds) : ds[j] # 0

Wit_C25_PositiveDenominator ==
    /\ IsParams
    /\ rank(phi) = 3
    /\ last.indices = <<1, 2>>
    /\ \E i \in 1..Len(last.points) : last.points[i] = <<0, 0, 0>>
    /\ \E i \in 1..Len(last.params) : last.params[i][2] = <<7, 0, 1>>
    /\ \A i \in 1..Len(last.params) : last.params[i][2] # <<0, 0, 0>>

\* C26: is_isomorphic gives the same answer with its two modules exchanged.
Thm_C26_Symmetric ==
    IsIso => (last.answer <=> is_isomorphic(last.psi, phi))

Wit_C26_Symmetric ==
    /\ IsIso
    /\ phi.gen = <<1, 1, 0, 1>>
    /\ last.psi.gen = <<1, 1, 0, 2>>
    /\ ~last.answer
    /\ ~is_isomorphic(last.psi, phi)

\* velu went past its tests: the division was made, the characteristic is
\* known and the input was not refused as not defining an isogeny
PassedCriterion ==
    /\ IsVelu
    /\ last.divided
    /\ characteristic(phi.cat).status = "ok"
    /\ last.status # NotAnIsogeny

\* C27: whenever velu passes its isogeny test, the quotient has the degree
\* and the constant coefficient of the generator of phi, and the codomain
\* is built from it without failure.
Thm_C27_QuotientIsGenerator ==
    PassedCriterion =>
        /\ Criterion(phi, last.isog)
        /\ Degree(last.quo) = rank(phi)
        /\ Coef(last.quo, 0) = Coef(phi.gen, 0)
        /\ last.status = "ok"
        /\ last.mod.gen = last.quo
        /\ last.mod.cat = phi.cat

Wit_C27_QuotientIsGenerator ==
    /\ PassedCriterion
    /\ phi.gen = <<2, 1, 3>>
    /\ last.isog = <<0, 0, 1>>
    /\ last.status = "ok"
    /\ last.quo = phi.gen

\* C28 as claimed: for every module and every nonzero constant c, velu(c)
\* succeeds, its codomain is isomorphic to phi, and for c = 1 the codomain
\* is phi itself.
Claim_C28_VeluByConstant ==
    (last.op = "velu" /\ last.given /\ Len(last.isog) = 1) =>
        /\ last.status = "ok"
        /\ is_isomorphic(phi, last.mod)
        /\ last.isog = <<1>> => last.mod = phi

\* the call recorded in last, made again on phi, has the recorded outcome
Repeatable ==
    pc = "returned" =>
        CASE last.op = "call" -> last.image = call(phi, last.a)
          [] last.op = "coefficient" ->
                coefficient(phi, last.n) = [status |-> last.status, value |-> last.value]
          [] last.op = "coefficients" ->
                last.coefficients = coefficients(phi, last.sparse)
          [] last.op = "rank" -> last.value = rank(phi)
          [] last.op = "height" ->
                height(phi) = [status |-> last.status, p |-> last.p,
                               valuation |-> last.valuation, value |-> last.value]
          [] last.op = "j_invariant" ->
                j_invariant(phi, last.parameter, last.check)
                    = [status |-> last.status, value |-> last.value]
          [] last.op = "basic_j_invariant_parameters" ->
                basic_j_invariant_parameters(phi, last.coeff_indices, last.nonzero)
                    = [status |-> last.status, indices |-> last.indices,
                       points |-> last.points, params |-> last.params]
          [] last.op = "basic_j_invariants" ->
                basic_j_invariants(phi) = [status |-> last.status, entries |-> last.entries]
          [] last.op = "is_isomorphic" -> last.answer = is_isomorphic(phi, last.psi)
          [] last.op \in {"velu", "velu_gen"} ->
                velu(phi, [ore |-> last.given, p |-> last.isog])
                    = [status |-> last.status, mod |-> last.mod, quo |-> last.quo,
                       rem |-> last.rem, divided |-> last.divided]
          [] OTHER -> TRUE

BasicEntry(p, v) == <<p, v>>

\* C29: for a module of rank 2, basic_j_invariant_parameters() returns the
\* single parameter ((1,), (q+1, 1)), and basic_j_invariants() has the
\* single entry of that parameter, whose value is j_invariant().
Thm_C29_RankTwoSingle ==
    rank(phi) = 2 =>
        /\ (last.op = "basic_j_invariant_parameters"
                /\ last.coeff_indices.kind = "None" /\ ~last.nonzero) =>
              /\ last.status = "ok"
              /\ last.params = <<(<<(<<1>>), <<q + 1, 1>>>>)>>
        /\ last.op = "basic_j_invariants" =>
              /\ last.status = "ok"
              /\ last.entries = <<BasicEntry(<<(<<1>>), <<q + 1, 1>>>>,
                                             j_invariant(phi, NoParameter, TRUE).value)>>
              /\ j_invariant(phi, NoParameter, TRUE).status = "ok"

Wit_C29_RankTwoSingle ==
    /\ last.op = "basic_j_invariants"
    /\ phi.gen = <<2, 2, 1>>
    /\ last.status = "ok"
    /\ Len(last.entries) = 1
    /\ last.entries[1][2] = 1

Bare(gen) == \A i \in 2..(Len(gen) - 1) : gen[i] = 0

\* C30: for two modules of equal rank r >= 2 whose coefficients g_1, ...,
\* g_{r-1} are all zero, basic_j_invariant_parameters(nonzero=True) is
\* empty and is_isomorphic answers true whatever the leading coefficients.
Thm_C30_VacuousComparison ==
    (/\ IsIso
     /\ rank(phi) >= 2
     /\ rank(last.psi) = rank(phi)
     /\ Bare(phi.gen)
     /\ Bare(last.psi.gen)) =>
        /\ basic_j_invariant_parameters(phi, [kind |-> "None", list |-> <<>>], TRUE)
              = [status |-> "ok", indices |-> <<>>, points |-> <<(<<0>>)>>, params |-> <<>>]
        /\ last.answer

Wit_C30_VacuousComparison ==
    /\ IsIso
    /\ phi.gen = <<1, 0, 0, 1>>
    /\ last.psi.gen = <<2, 0, 0, 2>>
    /\ last.answer

====
